---- MODULE Spec2Model ----
(***************************************************************************)
(* State-machine model of src/ImageClassifier/index.js (ml5 ImageClassifier):*)
(* asynchronous model load with a queue of pending predictions, the        *)
(* retraining dataset (xs / ys), train, predict and the top-K ranking.     *)
(***************************************************************************)
EXTENDS Integers, Sequences, FiniteSets, TLC

\* ------------------------------------------------------------------ bounds
MaxPredicts == 3      \* predict calls made by the user in Spec
MaxDataPredicts == 1  \* predict calls made by the user in SpecData
MaxRows == 2          \* addImage calls, hence rows of the dataset, in SpecData
MaxTrains == 2        \* train calls made by the user
MaxTrainRows == 10    \* rows of the dataset in SpecTrain
MaxVocab == 3         \* length of the probability vector in SpecTopK
MaxProb == 2          \* distinct probability levels in SpecTopK

\* ------------------------------------------------------- program constants
topKPredictions == 10
numClasses == 2
VocabSize == 1000

\* ------------------------------------------------------ JavaScript values
\* Every value is a record [t, v]: t is the kind, v the payload.
Null == [t |-> "null", v |-> 0]
Img == [t |-> "img", v |-> 0]
VideoEl == [t |-> "video", v |-> 0]
ProcVideo == [t |-> "video", v |-> 1]
Num(k) == [t |-> "num", v |-> k]
Cb(c) == [t |-> "cb", v |-> c]

Truthy(x) == x.t # "null" /\ ~(x.t = "num" /\ x.v = 0)

\* numberOfClasses || this.topKPredictions
OrTopK(x) == IF Truthy(x) THEN x ELSE Num(topKPredictions)

VARIABLES
  video,               \* this.video: Null or the processed video element
  batchSize,           \* this.batchSize: a double, see Frac
  modelLoaded,         \* this.modelLoaded
  loadState,           \* the promise of loadModel(): "loading", "ready", "failed"
  waitingPredictions,  \* this.waitingPredictions
  calls,               \* every run of predict that passed the modelLoaded test
  delivered,           \* ids of the user callbacks of predict, in invocation order
  submissions,         \* one record per predict call made by the user
  onReadyCalls,        \* invocations of the constructor's callback
  xs, ys,              \* this.xs, this.ys: Null or the rows of the tensor
  hasAnyTrainedClass,  \* this.hasAnyTrainedClass
  customModel,         \* this.customModel: 0 (null) or the id of the model
  fits,                \* every customModel.fit(...) started by train
  trainCalls,          \* train calls made by the user
  lastTrain,           \* how the latest train call ended
  appended,            \* addImage calls that reached the dataset update
  addCalls,            \* addImage calls made by the user
  addCallbacks,        \* invocations of the callbacks of addImage
  accepted,            \* the labels of the calls counted in appended, in call order
  disposed,            \* the tensors released with dispose(): <<"xs", n>> and
                       \* <<"ys", n>> are the tensors this.xs and this.ys of n rows
  tk                   \* one run of getTopKClasses on a concrete vector

vars == <<video, batchSize, modelLoaded, loadState, waitingPredictions, calls,
          delivered, submissions, onReadyCalls, xs, ys, hasAnyTrainedClass,
          customModel, fits, trainCalls, lastTrain, appended, addCalls,
          addCallbacks, accepted, disposed, tk>>

datasetVars == <<xs, ys, hasAnyTrainedClass, appended, addCalls, addCallbacks,
                 accepted, disposed>>
trainVars == <<customModel, fits, trainCalls, lastTrain>>
predictVars == <<video, waitingPredictions, calls, submissions>>

\* --------------------------------------------------------------- predict
\* The error getTopKClasses raises for a vector of n values and a count topK:
\* new Float32Array(topK) rejects a negative length, valuesAndIndices[i].value
\* reads past the end of the array when topK > n.
TopKError(n, topK) ==
  IF topK < 0 THEN "RangeError"
  ELSE IF topK > n THEN "TypeError"
  ELSE ""

\* The trained head, if the current customModel has completed a fit; else 0.
TrainedHead(cm, fs) ==
  IF cm # 0 /\ \E i \in 1..Len(fs) : fs[i].model = cm /\ fs[i].state = "done"
  THEN cm ELSE 0

\* predict without the test of this.modelLoaded: the network always runs.
predictUnguarded(st, a, b, c, qidx, head) ==
  LET isEl == a.t \in {"img", "video"}
      video1 == IF a.t = "video" /\ st.video = Null THEN ProcVideo ELSE st.video
      imgToPredict == IF a.t = "img" THEN a ELSE video1
      numberOfClasses == IF isEl THEN Null ELSE a
      callback == IF isEl THEN c ELSE b
      call == [qidx |-> qidx, num |-> numberOfClasses,
               topK |-> OrTopK(numberOfClasses),
               callback |-> callback, head |-> head, src |-> "mobilenet",
               veclen |-> VocabSize,
               pc |-> IF imgToPredict = Null THEN "threw" ELSE "await",
               err |-> IF imgToPredict = Null THEN "fromPixels" ELSE "",
               len |-> 0]
  IN [st EXCEPT !.video = video1, !.calls = Append(@, call)]

\* predict(a, b, c) run on the state st = [video, modelLoaded,
\* waitingPredictions, calls]; qidx is the index of the queue entry being
\* replayed (0 for a call of the user), head the trained head at the call.
predict(st, a, b, c, qidx, head) ==
  LET isEl == a.t \in {"img", "video"}
      video1 == IF a.t = "video" /\ st.video = Null THEN ProcVideo ELSE st.video
      imgToPredict == IF a.t = "img" THEN a ELSE video1
      numberOfClasses == IF isEl THEN Null ELSE a
      callback == IF isEl THEN c ELSE b
      topK == OrTopK(numberOfClasses)
      call == [qidx |-> qidx, num |-> numberOfClasses, topK |-> topK,
               callback |-> callback, head |-> head, src |-> "mobilenet",
               veclen |-> VocabSize,
               pc |-> IF imgToPredict = Null THEN "threw" ELSE "await",
               err |-> IF imgToPredict = Null THEN "fromPixels" ELSE "",
               len |-> 0]
  IN IF ~st.modelLoaded
     THEN [st EXCEPT !.video = video1,
                     !.waitingPredictions =
                        Append(@, [imgToPredict |-> imgToPredict, num |-> topK,
                                   callback |-> callback])]
     ELSE [st EXCEPT !.video = video1, !.calls = Append(@, call)]

PredState == [video |-> video, modelLoaded |-> modelLoaded,
              waitingPredictions |-> waitingPredictions, calls |-> calls]

\* The top-K counts a user passes to predict(k, callback).
UserK == {-1, 0, 3, VocabSize + 1}

\* The three call shapes of predict: (image, k, cb), (video, k, cb), (k, cb).
UserArgs(id, K) ==
  {<<Img, Num(3), Cb(id)>>, <<VideoEl, Num(3), Cb(id)>>}
    \cup {<<Num(k), Cb(id), Null>> : k \in K}

\* The user calls predict: at most max calls, with counts from K.
Predict(max, K) ==
  /\ Len(submissions) < max
  /\ \E args \in UserArgs(Len(submissions) + 1, K) :
       LET st == predict(PredState, args[1], args[2], args[3], 0,
                         TrainedHead(customModel, fits))
       IN /\ video' = st.video
          /\ waitingPredictions' = st.waitingPredictions
          /\ calls' = st.calls
          /\ submissions' = Append(submissions, [queued |-> ~modelLoaded])
  /\ UNCHANGED <<batchSize, modelLoaded, loadState, delivered, onReadyCalls,
                 datasetVars, trainVars, tk>>

\* getTopKClasses after `await logits.data()`: the rest of one pending call.
\* The promises of logits.data() of different calls resolve in any order.
getTopKClassesResume(c) ==
  LET e == TopKError(c.veclen, c.topK.v)
  IN IF e # "" THEN [c EXCEPT !.pc = "threw", !.err = e]
     ELSE IF ~Truthy(c.callback) THEN [c EXCEPT !.pc = "done", !.len = c.topK.v]
     ELSE IF c.callback.t # "cb" THEN [c EXCEPT !.pc = "threw", !.err = "notFunction"]
     ELSE [c EXCEPT !.pc = "done", !.len = c.topK.v]

DataResolved ==
  /\ \E i \in 1..Len(calls) :
       /\ calls[i].pc = "await"
       /\ LET c == getTopKClassesResume(calls[i])
          IN /\ calls' = [calls EXCEPT ![i] = c]
             /\ delivered' = IF c.pc = "done" /\ c.callback.t = "cb"
                             THEN Append(delivered, c.callback.v)
                             ELSE delivered
  /\ UNCHANGED <<video, batchSize, modelLoaded, loadState, waitingPredictions,
                 submissions, onReadyCalls, datasetVars, trainVars, tk>>

\* ------------------------------------------------------------ constructor
RECURSIVE forEachPredict(_, _, _, _)
\* this.waitingPredictions.forEach(i => this.predict(i.imgToPredict, i.num,
\* i.callback)): forEach visits the entries present when it starts.
forEachPredict(st, q, i, head) ==
  IF i > Len(q) THEN st
  ELSE forEachPredict(predict(st, q[i].imgToPredict, q[i].num, q[i].callback,
                              i, head),
                      q, i + 1, head)

\* LoadDone with this.modelLoaded set after the replay instead of before it.
LoadDoneFlagLate ==
  /\ loadState = "loading"
  /\ loadState' = "ready"
  /\ modelLoaded' = TRUE
  /\ LET st == forEachPredict(PredState, waitingPredictions, 1,
                              TrainedHead(customModel, fits))
     IN /\ video' = st.video
        /\ waitingPredictions' = st.waitingPredictions
        /\ calls' = st.calls
  /\ onReadyCalls' = onReadyCalls + 1
  /\ UNCHANGED <<batchSize, delivered, submissions, datasetVars, trainVars, tk>>

\* The continuation of loadModel().then(...) in the constructor.
LoadDone ==
  /\ loadState = "loading"
  /\ loadState' = "ready"
  /\ modelLoaded' = TRUE
  /\ LET st == forEachPredict([PredState EXCEPT !.modelLoaded = TRUE],
                              waitingPredictions, 1,
                              TrainedHead(customModel, fits))
     IN /\ video' = st.video
        /\ waitingPredictions' = st.waitingPredictions
        /\ calls' = st.calls
  /\ onReadyCalls' = onReadyCalls + 1
  /\ UNCHANGED <<batchSize, delivered, submissions, datasetVars, trainVars, tk>>

\* LoadFail with the continuation run on rejection as well.
LoadFailRunsContinuation ==
  /\ loadState = "loading"
  /\ loadState' = "failed"
  /\ modelLoaded' = TRUE
  /\ LET st == forEachPredict([PredState EXCEPT !.modelLoaded = TRUE],
                              waitingPredictions, 1,
                              TrainedHead(customModel, fits))
     IN /\ video' = st.video
        /\ waitingPredictions' = st.waitingPredictions
        /\ calls' = st.calls
  /\ onReadyCalls' = onReadyCalls + 1
  /\ UNCHANGED <<batchSize, delivered, submissions, datasetVars, trainVars, tk>>

\* loadModel() rejects: the then-continuation never runs.
LoadFail ==
  /\ loadState = "loading"
  /\ loadState' = "failed"
  /\ UNCHANGED <<video, batchSize, modelLoaded, waitingPredictions, calls,
                 delivered, submissions, onReadyCalls, datasetVars, trainVars, tk>>

\* ---------------------------------------------------------------- addImage
\* tf.oneHot(tf.tensor1d([label]), this.numClasses): one row of numClasses
\* entries; an index outside 0..numClasses-1 sets none of them.
oneHot(label) == [i \in 1..numClasses |-> IF i = label + 1 THEN 1 ELSE 0]

\* The labels and the inputs a user passes to addImage.
UserLabels == 0..numClasses
UserInputs == {Null, Img}

Rows(x) == IF x.t = "null" THEN 0 ELSE Len(x.v)

\* What an addImage call leaves alone when it does not reach the dataset.
addImageSkipped ==
  UNCHANGED <<xs, ys, hasAnyTrainedClass, appended, addCallbacks, accepted, disposed>>

\* addImage with the labels tensor left as it was when the dataset has rows.
addImageKeepsYs(label, input) ==
  /\ addCalls' = addCalls + 1
  /\ IF ~modelLoaded THEN addImageSkipped
     ELSE LET src == IF Truthy(input) THEN input ELSE video
          IN IF src = Null
             THEN addImageSkipped
             ELSE /\ IF xs.t = "null"
                     THEN /\ xs' = [t |-> "rows", v |-> <<src>>]
                          /\ ys' = [t |-> "rows", v |-> <<oneHot(label)>>]
                          /\ hasAnyTrainedClass' = TRUE
                          /\ UNCHANGED disposed
                     ELSE /\ xs' = [xs EXCEPT !.v = Append(@, src)]
                          /\ disposed' = disposed \cup {<<"xs", Rows(xs)>>}
                          /\ UNCHANGED <<ys, hasAnyTrainedClass>>
                  /\ appended' = appended + 1
                  /\ accepted' = Append(accepted, label)
                  /\ addCallbacks' = addCallbacks + 1

\* addImage without the test of this.modelLoaded.
addImageUnguarded(label, input) ==
  /\ addCalls' = addCalls + 1
  /\ LET src == IF Truthy(input) THEN input ELSE video
     IN IF src = Null
        THEN addImageSkipped
        ELSE /\ IF xs.t = "null"
                THEN /\ xs' = [t |-> "rows", v |-> <<src>>]
                     /\ ys' = [t |-> "rows", v |-> <<oneHot(label)>>]
                     /\ hasAnyTrainedClass' = TRUE
                     /\ UNCHANGED disposed
                ELSE /\ xs' = [xs EXCEPT !.v = Append(@, src)]
                     /\ ys' = [ys EXCEPT !.v = Append(@, oneHot(label))]
                     /\ disposed' = disposed \cup {<<"xs", Rows(xs)>>, <<"ys", Rows(ys)>>}
                     /\ UNCHANGED hasAnyTrainedClass
             /\ appended' = appended + 1
             /\ accepted' = Append(accepted, label)
             /\ addCallbacks' = addCallbacks + 1

\* addImage with the new row concatenated in front of the old rows.
addImagePrepends(label, input) ==
  /\ addCalls' = addCalls + 1
  /\ IF ~modelLoaded THEN addImageSkipped
     ELSE LET src == IF Truthy(input) THEN input ELSE video
          IN IF src = Null
             THEN addImageSkipped
             ELSE /\ IF xs.t = "null"
                     THEN /\ xs' = [t |-> "rows", v |-> <<src>>]
                          /\ ys' = [t |-> "rows", v |-> <<oneHot(label)>>]
                          /\ hasAnyTrainedClass' = TRUE
                          /\ UNCHANGED disposed
                     ELSE /\ xs' = [xs EXCEPT !.v = <<src>> \o @]
                          /\ ys' = [ys EXCEPT !.v = <<oneHot(label)>> \o @]
                          /\ disposed' = disposed \cup {<<"xs", Rows(xs)>>, <<"ys", Rows(ys)>>}
                          /\ UNCHANGED hasAnyTrainedClass
                  /\ appended' = appended + 1
                  /\ accepted' = Append(accepted, label)
                  /\ addCallbacks' = addCallbacks + 1

\* addImage that never sets this.hasAnyTrainedClass.
addImageNoFlag(label, input) ==
  /\ addCalls' = addCalls + 1
  /\ IF ~modelLoaded THEN addImageSkipped
     ELSE LET src == IF Truthy(input) THEN input ELSE video
          IN IF src = Null
             THEN addImageSkipped
             ELSE /\ IF xs.t = "null"
                     THEN /\ xs' = [t |-> "rows", v |-> <<src>>]
                          /\ ys' = [t |-> "rows", v |-> <<oneHot(label)>>]
                          /\ UNCHANGED <<hasAnyTrainedClass, disposed>>
                     ELSE /\ xs' = [xs EXCEPT !.v = Append(@, src)]
                          /\ ys' = [ys EXCEPT !.v = Append(@, oneHot(label))]
                          /\ disposed' = disposed \cup {<<"xs", Rows(xs)>>, <<"ys", Rows(ys)>>}
                          /\ UNCHANGED hasAnyTrainedClass
                  /\ appended' = appended + 1
                  /\ accepted' = Append(accepted, label)
                  /\ addCallbacks' = addCallbacks + 1

\* addImage(label, callback, input): nothing happens unless the model is
\* loaded; tf.fromPixels(null) throws before the dataset is touched; the
\* first row is kept as this.xs / this.ys, a later row is concatenated into
\* new tensors and the old ones are disposed; then callback() runs.
addImage(label, input) ==
  /\ addCalls' = addCalls + 1
  /\ IF ~modelLoaded THEN addImageSkipped
     ELSE LET src == IF Truthy(input) THEN input ELSE video
          IN IF src = Null
             THEN addImageSkipped
             ELSE /\ IF xs.t = "null"
                     THEN /\ xs' = [t |-> "rows", v |-> <<src>>]
                          /\ ys' = [t |-> "rows", v |-> <<oneHot(label)>>]
                          /\ hasAnyTrainedClass' = TRUE
                          /\ UNCHANGED disposed
                     ELSE /\ xs' = [xs EXCEPT !.v = Append(@, src)]
                          /\ ys' = [ys EXCEPT !.v = Append(@, oneHot(label))]
                          /\ disposed' = disposed \cup {<<"xs", Rows(xs)>>, <<"ys", Rows(ys)>>}
                          /\ UNCHANGED hasAnyTrainedClass
                  /\ appended' = appended + 1
                  /\ accepted' = Append(accepted, label)
                  /\ addCallbacks' = addCallbacks + 1

AddImage ==
  /\ addCalls < MaxRows
  /\ \E label \in UserLabels, input \in UserInputs : addImage(label, input)
  /\ UNCHANGED <<predictVars, batchSize, modelLoaded, loadState, delivered,
                 onReadyCalls, trainVars, tk>>

\* ------------------------------------------------------------------- train
\* A double m * 2^-e with m = hi * 2^27 + lo, 2^52 <= m < 2^53, negated when
\* neg; hi = lo = 0 is the number 0 and t = "null" is undefined.
Frac(neg, hi, lo, e) == [t |-> "num", neg |-> neg, hi |-> hi, lo |-> lo, e |-> e]
Undefined == [t |-> "null", neg |-> FALSE, hi |-> 0, lo |-> 0, e |-> 0]
Zero == Frac(FALSE, 0, 0, 0)
D04 == Frac(FALSE, 53687091, 26843546, 54)      \* 0.4
D01 == Frac(FALSE, 53687091, 26843546, 56)      \* 0.1
D05 == Frac(FALSE, 33554432, 0, 53)             \* 0.5
D07 == Frac(FALSE, 46976204, 107374182, 53)     \* 0.7
D10 == Frac(FALSE, 33554432, 0, 52)             \* 1.0
DNeg05 == Frac(TRUE, 33554432, 0, 53)           \* -0.5

DEFAULTS_batchSize == D04

\* options.batchSize || DEFAULTS.batchSize
OptionBatchSize(o) ==
  IF o.t = "null" \/ (o.hi = 0 /\ o.lo = 0) THEN DEFAULTS_batchSize ELSE o

P27 == 2^27

RECURSIVE BitLen(_)
BitLen(n) == IF n = 0 THEN 0 ELSE 1 + BitLen(n \div 2)

\* FloorMul with the product truncated to 53 bits instead of rounded.
FloorMulTruncated(n, f) ==
  IF n = 0 \/ (f.hi = 0 /\ f.lo = 0) THEN 0
  ELSE
    LET plo == n * f.lo
        phi == n * f.hi + (plo \div P27)
        lo1 == plo % P27
        unit == 2^(BitLen(phi) - 26)
        lo3 == (lo1 \div unit) * unit
        d == 2^(f.e - 27)
        whole == phi \div d
        exact == phi % d = 0 /\ lo3 = 0
    IN IF ~f.neg THEN whole
       ELSE IF exact THEN 0 - whole ELSE 0 - whole - 1

\* Math.floor(n * f) for an integer 0 <= n < 16 and a double f: the product
\* is rounded to 53 bits (to nearest, ties to even), then floored.
FloorMul(n, f) ==
  IF n = 0 \/ (f.hi = 0 /\ f.lo = 0) THEN 0
  ELSE
    LET plo == n * f.lo
        phi == n * f.hi + (plo \div P27)
        lo1 == plo % P27
        s == BitLen(phi) - 26                     \* bits to round away
        unit == 2^s
        r == lo1 % unit
        q == lo1 \div unit
        up == IF 2 * r > unit \/ (2 * r = unit /\ q % 2 = 1) THEN 1 ELSE 0
        lo2 == (q + up) * unit
        hi3 == phi + (lo2 \div P27)
        lo3 == lo2 % P27
        d == 2^(f.e - 27)
        whole == hi3 \div d
        exact == hi3 % d = 0 /\ lo3 = 0
    IN IF ~f.neg THEN whole
       ELSE IF exact THEN 0 - whole ELSE 0 - whole - 1

\* train without the test of this.hasAnyTrainedClass.
TrainUnchecked ==
  /\ trainCalls < MaxTrains
  /\ trainCalls' = trainCalls + 1
  /\ LET id == trainCalls + 1
         batch == FloorMul(Rows(xs), batchSize)
     IN /\ customModel' = id
        /\ lastTrain' = [outcome |-> IF batch > 0 THEN "fitting" ELSE "BatchError",
                         rows |-> Rows(xs), batch |-> batch]
        /\ IF ~(batch > 0)
           THEN UNCHANGED fits
           ELSE fits' = Append(fits, [model |-> id, batchSize |-> batch,
                                      rows |-> Rows(xs), state |-> "running"])
  /\ UNCHANGED <<predictVars, batchSize, modelLoaded, loadState, delivered,
                 onReadyCalls, datasetVars, tk>>

NoTrain == [outcome |-> "", rows |-> 0, batch |-> 0]

\* train(onProgress)
Train ==
  /\ trainCalls < MaxTrains
  /\ trainCalls' = trainCalls + 1
  /\ IF ~hasAnyTrainedClass
     THEN /\ lastTrain' = [outcome |-> "EmptyError", rows |-> Rows(xs),
                           batch |-> 0]
          /\ UNCHANGED <<customModel, fits>>
     ELSE LET id == trainCalls + 1
              batch == FloorMul(Rows(xs), batchSize)
          IN /\ customModel' = id
             /\ lastTrain' = [outcome |-> IF batch > 0 THEN "fitting" ELSE "BatchError",
                              rows |-> Rows(xs), batch |-> batch]
             /\ IF ~(batch > 0)
                THEN UNCHANGED fits
                ELSE fits' = Append(fits, [model |-> id, batchSize |-> batch,
                                           rows |-> Rows(xs), state |-> "running"])
  /\ UNCHANGED <<predictVars, batchSize, modelLoaded, loadState, delivered,
                 onReadyCalls, datasetVars, tk>>

\* The promise of customModel.fit(...) settles: the fit has run all epochs,
\* or, when addImage has disposed the tensor it reads its batches from, it
\* may instead have failed on the disposed tensor.
FitDone ==
  /\ \E i \in 1..Len(fits) :
       /\ fits[i].state = "running"
       /\ \E end \in (IF <<"xs", fits[i].rows>> \in disposed
                      THEN {"done", "failed"} ELSE {"done"}) :
            fits' = [fits EXCEPT ![i].state = end]
  /\ UNCHANGED <<predictVars, batchSize, modelLoaded, loadState, delivered,
                 onReadyCalls, datasetVars, customModel, trainCalls, lastTrain, tk>>

\* ---------------------------------------------------------- getTopKClasses
\* IMAGENET_CLASSES[i]: the i-th class name of the static vocabulary.
IMAGENET_CLASSES(i) ==
  IF i \in 0..(VocabSize - 1) THEN [t |-> "class", v |-> i] ELSE Null

\* The comparator of the sort: (a, b) => b.value - a.value.
compare(a, b) == b.value - a.value

RECURSIVE insertBeforeEqual(_, _)
\* insertSorted that puts x before the elements comparing equal to it.
insertBeforeEqual(s, x) ==
  IF s = <<>> THEN <<x>>
  ELSE IF compare(Head(s), x) >= 0 THEN <<x>> \o s
  ELSE <<Head(s)>> \o insertBeforeEqual(Tail(s), x)

RECURSIVE insertSorted(_, _)
\* x goes before the first element the comparator orders after it, so that
\* elements comparing equal keep their order (Array.prototype.sort is stable).
insertSorted(s, x) ==
  IF s = <<>> THEN <<x>>
  ELSE IF compare(Head(s), x) > 0 THEN <<x>> \o s
  ELSE <<Head(s)>> \o insertSorted(Tail(s), x)

RECURSIVE sort(_, _)
\* valuesAndIndices.sort(...): sort(<<>>, a) is a sorted by the comparator.
sort(done, rest) ==
  IF rest = <<>> THEN done
  ELSE sort(insertSorted(done, Head(rest)), Tail(rest))

\* getTopKClasses(logits, topK, callback) on the values of logits; the result
\* is [err, result]: the error thrown, or the list topClassesAndProbs.
getTopKClasses(values, topK) ==
  LET valuesAndIndices == [i \in 1..Len(values) |->
                             [value |-> values[i], index |-> i - 1]]
      sorted == sort(<<>>, valuesAndIndices)
      e == TopKError(Len(values), topK)
  IN IF e # "" THEN [err |-> e, result |-> <<>>]
     ELSE [err |-> "",
           result |-> [i \in 1..topK |->
                         [className |-> IMAGENET_CLASSES(sorted[i].index),
                          probability |-> sorted[i].value]]]

TkIdle == [pc |-> "idle", values |-> <<>>, topK |-> 0, err |-> "", result |-> <<>>]

\* One call of the static method with a vector and a count.
TopKRun ==
  /\ tk.pc = "start"
  /\ LET r == getTopKClasses(tk.values, tk.topK)
     IN tk' = [tk EXCEPT !.pc = "done", !.err = r.err, !.result = r.result]
  /\ UNCHANGED <<predictVars, batchSize, modelLoaded, loadState, delivered,
                 onReadyCalls, datasetVars, trainVars>>

\* ------------------------------------------------------------ specifications
\* The state the constructor leaves: the load is in flight.
InitWith(v, o) ==
  /\ video = v
  /\ batchSize = OptionBatchSize(o)
  /\ modelLoaded = FALSE
  /\ loadState = "loading"
  /\ waitingPredictions = <<>>
  /\ calls = <<>>
  /\ delivered = <<>>
  /\ submissions = <<>>
  /\ onReadyCalls = 0
  /\ xs = Null
  /\ ys = Null
  /\ hasAnyTrainedClass = FALSE
  /\ customModel = 0
  /\ fits = <<>>
  /\ trainCalls = 0
  /\ lastTrain = NoTrain
  /\ appended = 0
  /\ addCalls = 0
  /\ addCallbacks = 0
  /\ accepted = <<>>
  /\ disposed = {}

Init ==
  /\ \E v \in {Null, ProcVideo}, o \in {Undefined, D10} : InitWith(v, o)
  /\ tk = TkIdle

\* The load and the predictions: every shape of predict call, before and
\* after the load completes.
Next ==
  \/ Predict(MaxPredicts, UserK)
  \/ DataResolved
  \/ LoadDone
  \/ LoadFail

Spec == Init /\ [][Next]_vars

\* The dataset and the training, with the load and the predictions, for a
\* classifier constructed without a video.
InitData ==
  /\ \E o \in {Undefined, D10} : InitWith(Null, o)
  /\ tk = TkIdle

NextData ==
  \/ Predict(MaxDataPredicts, {})     \* predict(image, k, cb), predict(video, k, cb)
  \/ DataResolved
  \/ LoadDone
  \/ LoadFail
  \/ AddImage
  \/ Train
  \/ FitDone

SpecData == InitData /\ [][NextData]_vars

\* Training on datasets of up to MaxTrainRows rows: the state after the load
\* has completed and addImage(0, cb, image) has been called n times.
InitTrain ==
  /\ \E n \in 0..MaxTrainRows,
        o \in {Undefined, Zero, D01, D05, D07, D10, DNeg05} :
       /\ batchSize = OptionBatchSize(o)
       /\ xs = IF n = 0 THEN Null ELSE [t |-> "rows", v |-> [i \in 1..n |-> Img]]
       /\ ys = IF n = 0 THEN Null ELSE [t |-> "rows", v |-> [i \in 1..n |-> oneHot(0)]]
       /\ hasAnyTrainedClass = (n > 0)
       /\ appended = n
       /\ addCalls = n
       /\ addCallbacks = n
       /\ accepted = [i \in 1..n |-> 0]
       /\ disposed = {<<"xs", i>> : i \in 1..(n - 1)} \cup {<<"ys", i>> : i \in 1..(n - 1)}
  /\ video = Null
  /\ modelLoaded = TRUE
  /\ loadState = "ready"
  /\ waitingPredictions = <<>>
  /\ calls = <<>>
  /\ delivered = <<>>
  /\ submissions = <<>>
  /\ onReadyCalls = 1
  /\ customModel = 0
  /\ fits = <<>>
  /\ trainCalls = 0
  /\ lastTrain = NoTrain
  /\ tk = TkIdle

NextTrain ==
  \/ Train
  \/ FitDone

SpecTrain == InitTrain /\ [][NextTrain]_vars

\* The ranking on every vector of up to MaxVocab values and every count.
InitTopK ==
  /\ InitWith(Null, Undefined)
  /\ \E n \in 1..MaxVocab :
       \E values \in [1..n -> 0..MaxProb], topK \in (-1)..(MaxVocab + 1) :
         tk = [pc |-> "start", values |-> values, topK |-> topK,
               err |-> "", result |-> <<>>]

NextTopK == TopKRun

SpecTopK == InitTopK /\ [][NextTopK]_vars

\* ------------------------------------------------------------------ claims
Replays(i) == {j \in 1..Len(calls) : calls[j].qidx = i}
NoCallThrew == \A j \in 1..Len(calls) : calls[j].pc # "threw"
Positions(id) == {j \in 1..Len(delivered) : delivered[j] = id}

\* C1: the results of the predictions queued during the load reach their
\* callbacks in submission order, each before the result of any prediction
\* submitted later (stated for runs in which no prediction fails).
C1_QueuedDeliveredInOrder ==
  NoCallThrew =>
    \A j \in 1..Len(delivered) : \A q \in 1..Len(submissions) :
      (submissions[q].queued /\ q < delivered[j])
        => \E i \in 1..(j - 1) : delivered[i] = q

\* C2: once the load has completed every queued entry has been replayed
\* through predict exactly once (and never before that), and no callback of
\* a predict call is invoked twice.
C2_ReplayedExactlyOnce ==
  /\ \A i \in 1..Len(waitingPredictions) :
       Cardinality(Replays(i)) = IF modelLoaded THEN 1 ELSE 0
  /\ \A id \in 1..Len(submissions) : Cardinality(Positions(id)) <= 1

\* Two queued entries have been replayed and the second one has delivered.
C2_Witness ==
  /\ modelLoaded
  /\ Len(waitingPredictions) >= 2
  /\ \E j \in Replays(2) : calls[j].pc = "done" /\ Positions(calls[j].callback.v) # {}

\* C3: once onReady has been invoked, no prediction queued during the load
\* is still waiting for its result (and onReady is invoked at most once).
C3_OnReadyAfterDrain ==
  /\ onReadyCalls <= 1
  /\ onReadyCalls > 0 =>
       \A j \in 1..Len(calls) : calls[j].qidx > 0 => calls[j].pc # "await"

\* C4: the features and labels tensors have the same number of rows, and
\* that number is the number of addImage calls made on the loaded model
\* with an image to read.
C4_RowsMatch ==
  /\ xs.t = ys.t
  /\ Rows(xs) = Rows(ys)
  /\ Rows(xs) = appended

\* Two addImage calls have been made on the loaded model.
C4_Witness == appended = 2 /\ Rows(xs) = 2 /\ Rows(ys) = 2

\* C5: a prediction made while a trained head exists ranks the output of the
\* head, a vector of numClasses probabilities.
C5_RoutesThroughHead ==
  \A j \in 1..Len(calls) :
    calls[j].head # 0 =>
      calls[j].src = "customModel" /\ calls[j].veclen = numClasses

Min(a, b) == IF a <= b THEN a ELSE b

\* C6: for every count k >= 1 the ranking returns min(k, vocabulary size)
\* entries in non-increasing order of probability, without failing.
C6_TopKClamped ==
  (tk.pc = "done" /\ tk.topK >= 1) =>
    /\ tk.err = ""
    /\ Len(tk.result) = Min(tk.topK, Len(tk.values))
    /\ \A i \in 1..(Len(tk.result) - 1) :
         tk.result[i].probability >= tk.result[i + 1].probability

\* C7: two classes of equal probability appear in the ranking in ascending
\* order of their class index.
C7_TiesByAscendingIndex ==
  (tk.pc = "done" /\ tk.err = "") =>
    \A i, j \in 1..Len(tk.result) :
      (i < j /\ tk.result[i].probability = tk.result[j].probability)
        => tk.result[i].className.v < tk.result[j].className.v

\* A ranking that holds two classes of equal probability.
C7_Witness ==
  /\ tk.pc = "done"
  /\ tk.err = ""
  /\ \E i, j \in 1..Len(tk.result) :
       i < j /\ tk.result[i].probability = tk.result[j].probability

\* C8: a prediction asked for a count k <= 0 ends in an error and returns
\* no ranking.
C8_NonPositiveKFails ==
  \A j \in 1..Len(calls) :
    (calls[j].num.t = "num" /\ calls[j].num.v <= 0 /\ calls[j].pc # "await")
      => calls[j].pc = "threw" /\ calls[j].len = 0

\* C9: a train call made while the dataset is empty ends in the error for
\* an empty dataset and leaves the head and the fits as they were.
C9_EmptyTrainFails ==
  [][(trainCalls' = trainCalls + 1 /\ xs.t = "null")
       => /\ lastTrain'.outcome = "EmptyError"
          /\ customModel' = customModel
          /\ fits' = fits]_vars

\* A train call on the empty dataset has failed.
C9_Witness == lastTrain.outcome = "EmptyError" /\ xs.t = "null"

\* The batch fraction in tenths, for the doubles the options take.
Tenths(f) ==
  CASE f = D01 -> 1 [] f = D04 -> 4 [] f = D05 -> 5 [] f = D07 -> 7
    [] f = D10 -> 10 [] f = DNeg05 -> -5

\* C10: the batch size is floor(datasetSize * batchFraction); train fails
\* for a degenerate batch size exactly when it is not positive, and starts
\* the fit otherwise: 1 row at 0.4 fails, 10 rows at 0.4 fit with batches of 4.
C10_BatchSize ==
  lastTrain.outcome \in {"fitting", "BatchError"} =>
    /\ lastTrain.batch = (lastTrain.rows * Tenths(batchSize)) \div 10
    /\ lastTrain.outcome = "BatchError" <=> lastTrain.batch <= 0
    /\ lastTrain.outcome = "fitting" <=>
         \E i \in 1..Len(fits) : /\ fits[i].model = customModel
                                 /\ fits[i].batchSize = lastTrain.batch
    /\ (lastTrain.rows = 1 /\ batchSize = D04) => lastTrain.outcome = "BatchError"
    /\ (lastTrain.rows = 10 /\ batchSize = D04)
         => lastTrain.outcome = "fitting" /\ lastTrain.batch = 4

\* train on 10 rows at the default fraction 0.4 has started a fit.
C10_Witness ==
  /\ lastTrain.rows = 10
  /\ batchSize = D04
  /\ lastTrain.outcome = "fitting"
  /\ \E i \in 1..Len(fits) : fits[i].batchSize = 4

\* C11: a label outside 0..numClasses-1 never reaches the dataset: every
\* label appended by addImage is in range.
C11_LabelsInRange ==
  \A i \in 1..Len(accepted) : accepted[i] \in 0..(numClasses - 1)

\* C12: the head changes only to a model whose fit has completed; a train
\* call that fails, or whose fit is still running, leaves it as it was.
C12_HeadChangesOnFitCompletion ==
  [][customModel' # customModel
       => \E i \in 1..Len(fits') : /\ fits'[i].model = customModel'
                                   /\ fits'[i].state = "done"]_vars

RunningFits == {i \in 1..Len(fits) : fits[i].state = "running"}

\* C13: at most one fit is running at any time.
C13_SingleFit == Cardinality(RunningFits) <= 1

\* C14: an addImage call made before the model is loaded changes neither the
\* dataset, nor the flag, nor the queue of predictions, and invokes no
\* callback; the completion of the load does not replay it.
C14_AddImageBeforeReadyNoOp ==
  [][/\ (addCalls' = addCalls + 1 /\ ~modelLoaded)
          => UNCHANGED <<xs, ys, hasAnyTrainedClass, appended, accepted, disposed,
                         addCallbacks, waitingPredictions, calls, delivered>>
     /\ (~modelLoaded /\ modelLoaded')
          => UNCHANGED <<xs, ys, hasAnyTrainedClass, appended, accepted, disposed,
                         addCallbacks>>]_vars

\* addImage has been called while the model loads, with a prediction queued:
\* the dataset is empty and no callback has run.
C14_Witness ==
  /\ ~modelLoaded
  /\ addCalls >= 1
  /\ Len(waitingPredictions) = 1
  /\ xs.t = "null"
  /\ ys.t = "null"
  /\ ~hasAnyTrainedClass
  /\ addCallbacks = 0

\* C15: when the replay of a queued prediction raises an error, the callback
\* of the queued call is invoked with it.
C15_ReplayErrorSurfaced ==
  \A j \in 1..Len(calls) :
    (calls[j].qidx > 0 /\ calls[j].pc = "threw")
      => /\ waitingPredictions[calls[j].qidx].callback.t = "cb"
         /\ Positions(waitingPredictions[calls[j].qidx].callback.v) # {}

\* C16: no running fit holds a features or labels tensor that addImage has
\* disposed.
C16_NoDisposedTensorInUse ==
  \A i \in RunningFits :
    /\ <<"xs", fits[i].rows>> \notin disposed
    /\ <<"ys", fits[i].rows>> \notin disposed

\* C17: the rows of the dataset are the labels (one-hot) and the images of
\* the accepted addImage calls, in call order.
C17_InsertionOrder ==
  /\ Rows(ys) = Len(accepted)
  /\ Rows(xs) = Len(accepted)
  /\ \A i \in 1..Len(accepted) : ys.v[i] = oneHot(accepted[i])

\* Two addImage calls with different labels have been accepted.
C17_Witness == Len(accepted) = 2 /\ accepted[1] # accepted[2] /\ Rows(ys) = 2

\* C18: the loaded flag never goes back to false, the load settles once, and
\* addImage and predict run the networks only when the flag is set.
C18_ReadyTerminalAndGuarded ==
  [][/\ modelLoaded => modelLoaded'
     /\ loadState # "loading" => loadState' = loadState
     /\ modelLoaded' <=> loadState' = "ready"
     /\ (Len(calls') > Len(calls) \/ appended' > appended) => modelLoaded']_vars

\* On the loaded model a prediction has run the network and an addImage
\* call has run the feature extractor.
C18_Witness == modelLoaded /\ Len(calls) > 0 /\ appended > 0

\* C19: after a failed load the model is never loaded, no queued prediction
\* has been replayed, no callback of predict and no onReady has been invoked.
C19_FailedLoadIsSilent ==
  loadState = "failed" =>
    /\ ~modelLoaded
    /\ calls = <<>>
    /\ delivered = <<>>
    /\ onReadyCalls = 0

\* The load has failed with two predictions in the queue.
C19_Witness == loadState = "failed" /\ Len(waitingPredictions) >= 2

\* C20: hasAnyTrainedClass holds exactly when xs and ys exist, that is when
\* an addImage call has been accepted; it never goes back to false, and a
\* train call passes the emptiness test exactly when it holds.
C20_FlagIffDataset ==
  /\ [](/\ hasAnyTrainedClass <=> xs.t # "null"
        /\ hasAnyTrainedClass <=> ys.t # "null"
        /\ hasAnyTrainedClass <=> appended > 0)
  /\ [][/\ hasAnyTrainedClass => hasAnyTrainedClass'
        /\ trainCalls' = trainCalls + 1
             => (lastTrain'.outcome = "EmptyError" <=> appended = 0)]_vars

\* A train call has passed the emptiness test on a non-empty dataset.
C20_Witness ==
  /\ hasAnyTrainedClass
  /\ appended > 0
  /\ lastTrain.outcome \in {"fitting", "BatchError"}

====
